---- MODULE Spec2Model ----
(***************************************************************************)
(* imfilter.cpp: a bilateral filter over an 8-bit RGB image.               *)
(*                                                                         *)
(* main parses the command line, loads the input file into two canvases,   *)
(* runs filterImage (reps passes of bilateralFilterPixel over every pixel, *)
(* an intermediate file and a copy-back between passes) and writes the     *)
(* output canvas.                                                          *)
(*                                                                         *)
(* The arithmetic of bilateralFilterPixel is IEEE-754 binary32 ("float")   *)
(* arithmetic with round-to-nearest-even; it is modelled bit for bit,      *)
(* because the final cast to uint8_t truncates and so makes a rounding     *)
(* error of one unit in the last place visible in the output byte.         *)
(***************************************************************************)
EXTENDS Integers, Sequences, FiniteSets, TLC

(***************************************************************************)
(* Bounds of the model.                                                    *)
(***************************************************************************)
\* Largest image width of the enumerated input images.
MaxWidth == 3
\* Largest image height of the enumerated input images.
MaxHeight == 3
\* Largest number of pixels (width * height) of the enumerated input images.
MaxPixels == 4
\* Largest repetition count given with --reps.
MaxReps == 3

(***************************************************************************)
(* binary32 values.  A positive normal float is <<m, e>> with              *)
(* 2^23 <= m < 2^24 and value m * 2^e; zero is <<0, 0>>; NaN is <<-1, 0>>. *)
(* Every float of the model is zero, NaN or a positive normal number:      *)
(* colours and weights are never negative, and no exponent comes near the  *)
(* subnormal range (below 2^-126) or the overflow range.                   *)
(* TLC's integers are 32 bits wide, so products and quotients of 24-bit    *)
(* mantissas are computed in limbs.                                        *)
(***************************************************************************)
Pow2(n) == 2^n

FZero == <<0, 0>>

FNaN == <<-1, 0>>

FOne == <<Pow2(23), -23>>

IsNaN(f) == f[1] < 0

IsZero(f) == f[1] = 0

\* Normalise a positive integer mantissa below 2^24 to [2^23, 2^24).
RECURSIVE Normalize(_, _)
Normalize(m, e) ==
    IF m >= Pow2(23) THEN <<m, e>> ELSE Normalize(2 * m, e - 1)

\* (float)n for an integer 0 <= n < 2^24: exact.
FromInt(n) == IF n = 0 THEN FZero ELSE Normalize(n, 0)

\* Round-to-nearest-even of mantissa m (2^23 <= m < 2^24) given the guard
\* bit and the sticky bit of what was cut off.
RoundNearestEven(m, e, guard, sticky) ==
    LET up == guard = 1 /\ (sticky = 1 \/ m % 2 = 1)
        r  == IF up THEN m + 1 ELSE m
    IN  IF r = Pow2(24) THEN <<Pow2(23), e + 1>> ELSE <<r, e>>

\* a < b, a <= b on non-NaN floats.
FLess(a, b) ==
    IF IsZero(b) THEN FALSE
    ELSE IF IsZero(a) THEN TRUE
    ELSE a[2] < b[2] \/ (a[2] = b[2] /\ a[1] < b[1])

FLessEq(a, b) == a = b \/ FLess(a, b)

\* a + b in binary32.  The smaller operand is shifted right with three extra
\* bits (guard, round, sticky).
FAdd(a, b) ==
    IF IsNaN(a) \/ IsNaN(b) THEN FNaN
    ELSE IF IsZero(a) THEN b
    ELSE IF IsZero(b) THEN a
    ELSE LET hi == IF FLess(a, b) THEN b ELSE a
             lo == IF FLess(a, b) THEN a ELSE b
             d  == hi[2] - lo[2]
             A  == hi[1] * 8
             B  == IF d >= 27 THEN 1
                   ELSE LET s == lo[1] * 8
                        IN  (s \div Pow2(d)) +
                            (IF s % Pow2(d) # 0 /\ (s \div Pow2(d)) % 2 = 0
                             THEN 1 ELSE 0)
             S  == A + B
         IN  IF S >= Pow2(27)
             THEN RoundNearestEven(S \div 16, hi[2] + 1, (S \div 8) % 2,
                                   IF S % 8 # 0 THEN 1 ELSE 0)
             ELSE RoundNearestEven(S \div 8, hi[2], (S \div 4) % 2,
                                   IF S % 4 # 0 THEN 1 ELSE 0)

\* a * b in binary32.  The 48-bit product of the mantissas is formed from
\* 12-bit limbs as hi * 2^24 + lo.
FMul(a, b) ==
    IF IsNaN(a) \/ IsNaN(b) THEN FNaN
    ELSE IF IsZero(a) \/ IsZero(b) THEN FZero
    ELSE LET a1  == a[1] \div 4096
             a0  == a[1] % 4096
             b1  == b[1] \div 4096
             b0  == b[1] % 4096
             mid == a1 * b0 + a0 * b1
             lof == a0 * b0 + (mid % 4096) * 4096
             lo  == lof % Pow2(24)
             hi  == a1 * b1 + (mid \div 4096) + (lof \div Pow2(24))
             e   == a[2] + b[2]
         IN  IF hi >= Pow2(23)
             THEN RoundNearestEven(hi, e + 24, lo \div Pow2(23),
                                   IF lo % Pow2(23) # 0 THEN 1 ELSE 0)
             ELSE RoundNearestEven(2 * hi + (lo \div Pow2(23)), e + 23,
                                   (lo \div Pow2(22)) % 2,
                                   IF lo % Pow2(22) # 0 THEN 1 ELSE 0)

\* Long division: <<quotient, remainder>> of (r * 2^(6 * n)) by d, six bits
\* at a time (r < d < 2^24, so r * 64 stays below 2^31).
RECURSIVE DivSteps(_, _, _, _)
DivSteps(q, r, d, n) ==
    IF n = 0 THEN <<q, r>>
    ELSE DivSteps(q * 64 + ((r * 64) \div d), (r * 64) % d, d, n - 1)

\* a / b in binary32.  0/0 is NaN; x/0 for x > 0 (infinity) does not arise:
\* the dividend is zero whenever the divisor is.
FDiv(a, b) ==
    IF IsNaN(a) \/ IsNaN(b) THEN FNaN
    ELSE IF IsZero(b) THEN FNaN
    ELSE IF IsZero(a) THEN FZero
    ELSE LET q0 == a[1] \div b[1]
             qr == DivSteps(q0, a[1] % b[1], b[1], 4)
             Q  == qr[1]
             r  == qr[2]
             e  == a[2] - b[2] - 24
         IN  IF Q >= Pow2(24)
             THEN RoundNearestEven(Q \div 2, e + 1, Q % 2,
                                   IF r # 0 THEN 1 ELSE 0)
             ELSE LET g == IF 2 * r >= b[1] THEN 1 ELSE 0
                      r2 == 2 * r - g * b[1]
                  IN  RoundNearestEven(Q, e, g, IF r2 # 0 THEN 1 ELSE 0)

\* The integer part of a non-NaN float below 2^31 (the value of a cast to an
\* integer type that can hold it).
Trunc(f) ==
    IF IsZero(f) THEN 0
    ELSE IF f[2] >= 0 THEN f[1] * Pow2(f[2])
    ELSE IF f[2] <= -24 THEN 0
    ELSE f[1] \div Pow2(-f[2])

(***************************************************************************)
(* Integer conversions and int arithmetic of bilateralFilterPixel.         *)
(***************************************************************************)
\* INT_MAX of the 32-bit int that holds support, x1, x2, y1, y2.
IntMax == 2147483647

IntMin == -IntMax - 1

\* What a build does with a float-to-integer conversion whose operand the
\* target type cannot hold (undefined behaviour): "indefinite" is x86's
\* cvttss2si (INT_MIN, the "integer indefinite" value), "saturating" is the
\* conversion of AArch64 (INT_MAX for a value that is too large).
Conversions == {"indefinite", "saturating"}

\* f is zero or a positive float below 2^31.
InIntRange(f) == IsZero(f) \/ f[2] < 8

\* (int)f for a non-negative float.
CastInt(f, conv) ==
    IF InIntRange(f) THEN Trunc(f)
    ELSE IF conv = "indefinite" THEN IntMin ELSE IntMax

\* a + b and a - b on 32-bit ints; signed overflow wraps modulo 2^32, which
\* is what the two builds above do.
Add32(a, b) ==
    IF b > 0 /\ a > IntMax - b THEN (a - IntMax - 1) + (b - IntMax - 1)
    ELSE IF b < 0 /\ a < IntMin - b THEN (a + IntMax + 1) + (b + IntMax + 1)
    ELSE a + b

Sub32(a, b) ==
    IF b = IntMin THEN Add32(Add32(a, IntMax), 1) ELSE Add32(a, -b)

\* (uint8_t)q for the quotient q.  A NaN operand is undefined behaviour;
\* both builds above convert it to an int whose low byte is 0.
CastByte(q) == IF IsNaN(q) THEN 0 ELSE Trunc(q)

(***************************************************************************)
(* Command line.                                                           *)
(***************************************************************************)
\* The tokens of the model's command lines whose first character is '-'.
StartsWithDash(tok) ==
    tok \in {"--help", "--in", "--out", "--s", "--b", "--nthreads", "--reps",
             "--kernelWidth", "-1"}

\* (float)atof(tok) for the sigma tokens of the model.
Atof(tok) ==
    CASE tok = "0"      -> FZero
      [] tok = "0.5"    -> <<Pow2(23), -24>>
      [] tok = "1"      -> FOne
      [] tok = "1e10"   -> <<9765625, 10>>
      [] tok = "0.0001" -> <<13743895, -37>>

\* atoi(tok) for the decimal tokens of the model.
Atoi(tok) == CHOOSE n \in -1 .. MaxReps + 1 : ToString(n) = tok

\* Parameters as declared: nthreads and reps have default member
\* initialisers, the other four members are indeterminate until an option
\* sets them.
DefaultParameters ==
    [inpath |-> "indeterminate", outpath |-> "indeterminate",
     s |-> "indeterminate", b |-> "indeterminate", nthreads |-> 1, reps |-> 1]

\* The exit status parseArgs passes to exit() after "Invalid option".
InvalidOptionExitStatus == 0

\* The exit status parseArgs passes to exit() after the --help text.
HelpExitStatus == 0

\* parseArgs' loop over the remaining arguments (argv[0] already skipped).
\* The result says whether the process exited inside parseArgs.
RECURSIVE parseArgs(_, _)
parseArgs(args, params) ==
    IF Len(args) = 0
    THEN [exited |-> FALSE, status |-> 0, stderr |-> <<>>, stdout |-> <<>>,
          params |-> params]
    ELSE LET opt == Head(args) IN
         IF ~StartsWithDash(opt) THEN parseArgs(Tail(args), params)
         ELSE IF opt = "--help"
         THEN [exited |-> TRUE, status |-> HelpExitStatus, stderr |-> <<>>,
               stdout |-> <<"Usage">>, params |-> params]
         ELSE IF opt = "--in"
         THEN parseArgs(Tail(Tail(args)), [params EXCEPT !.inpath = args[2]])
         ELSE IF opt = "--out"
         THEN parseArgs(Tail(Tail(args)), [params EXCEPT !.outpath = args[2]])
         ELSE IF opt = "--s"
         THEN parseArgs(Tail(Tail(args)), [params EXCEPT !.s = Atof(args[2])])
         ELSE IF opt = "--b"
         THEN parseArgs(Tail(Tail(args)), [params EXCEPT !.b = Atof(args[2])])
         ELSE IF opt = "--nthreads"
         THEN parseArgs(Tail(Tail(args)),
                        [params EXCEPT !.nthreads = Atoi(args[2])])
         ELSE IF opt = "--reps"
         THEN parseArgs(Tail(Tail(args)),
                        [params EXCEPT !.reps = Atoi(args[2])])
         ELSE [exited |-> TRUE, status |-> InvalidOptionExitStatus,
               stderr |-> <<"Invalid option", opt>>, stdout |-> <<>>,
               params |-> params]

(***************************************************************************)
(* Images.  A canvas is [width, height, data], data[<<x, y>>] the pixel at *)
(* column x, row y (imagein.data[y][x]), a triple of bytes.                *)
(***************************************************************************)
Coords(w, h) == (0 .. w - 1) \X (0 .. h - 1)

Black == <<0, 0, 0>>

White == <<255, 255, 255>>

Teal == <<5, 100, 200>>

Palette == {Black, White, Teal}

IsGray(c) == c[1] = c[2] /\ c[2] = c[3]

Shapes ==
    {wh \in (1 .. MaxWidth) \X (1 .. MaxHeight) : wh[1] * wh[2] <= MaxPixels}

\* The 4x4 all-white image of the end-to-end scenario.
WhiteScenario ==
    [width |-> 4, height |-> 4, data |-> [c \in Coords(4, 4) |-> White]]

\* The images over the palette, up to the bounds.
PaletteImages ==
    UNION {{[width |-> wh[1], height |-> wh[2], data |-> d] :
               d \in [Coords(wh[1], wh[2]) -> Palette]} : wh \in Shapes}

\* The 1x1 images of every grey level.
ByteImages ==
    {[width |-> 1, height |-> 1, data |-> [c \in Coords(1, 1) |-> <<v, v, v>>]] :
        v \in 0 .. 255}

Images == PaletteImages \cup {WhiteScenario} \cup ByteImages

GrayImage(img) == \A c \in DOMAIN img.data : IsGray(img.data[c])

(***************************************************************************)
(* getColor01, the two exponents and the weight.                           *)
(***************************************************************************)
\* getColor01: the three channels of pixel (x, y) divided by 255.0f.
getColor01(img, x, y) ==
    [k \in 1 .. 3 |-> FDiv(FromInt(img.data[<<x, y>>][k]), FromInt(255))]

\* int support = (int)(s*3).
Support_PlusOne(s, conv) == Add32(CastInt(FMul(s, FromInt(3)), conv), 1)

Support(s, conv) == CastInt(FMul(s, FromInt(3)), conv)

\* The clipped window <<x1, x2, y1, y2>>.
ClipWindow(x, y, support, width, height) ==
    LET xm == Sub32(x, support)
        xp == Add32(x, support)
        ym == Sub32(y, support)
        yp == Add32(y, support)
    IN  <<IF xm > 0 THEN xm ELSE 0,
          IF xp < width THEN xp ELSE width - 1,
          IF ym > 0 THEN ym ELSE 0,
          IF yp < height THEN yp ELSE height - 1>>

\* The coordinates the two loops visit, in the order they visit them: xs
\* outer, ys inner.  (xs is a float in the code; it counts exactly.)
WindowSeq(win) ==
    LET nx == IF win[2] >= win[1] THEN win[2] - win[1] + 1 ELSE 0
        ny == IF win[4] >= win[3] THEN win[4] - win[3] + 1 ELSE 0
    IN  [i \in 1 .. nx * ny |->
            <<win[1] + ((i - 1) \div ny), win[3] + ((i - 1) % ny)>>]

\* The spatial exponent d1.  The code divides in double and stores a float;
\* for the sigmas of the model the quotient is a power-of-two multiple of
\* the squared distance (exact in both precisions) or far below 2^-25.
SpatialTerm(xs, ys, x, y, s) ==
    IF FLess(FZero, s)
    THEN FDiv(FromInt((xs - x) * (xs - x) + (ys - y) * (ys - y)),
              FMul(FMul(FromInt(2), s), s))
    ELSE FZero

\* Stands for any d2 of at least 128: expf(-d1-d2) is 0 for all of them.
FHuge == <<Pow2(23), -14>>

\* The intensity exponent d2 = diffI^2 / (2 b^2).  Equal colours give
\* diff = 0 and d2 = 0.  Two different grey colours differ by at least
\* 1/255 in every channel, getIntensity's weights sum to 1, and so with
\* b <= 0.0001 d2 is at least 768.  Other arguments are outside the model.
IntensityTerm(I1, I2, b) ==
    IF ~FLess(FZero, b) THEN FZero
    ELSE CASE I1 = I2 -> FZero
           [] I1 # I2 /\ I1[1] = I1[2] /\ I1[2] = I1[3] /\ I2[1] = I2[2]
              /\ I2[2] = I2[3] /\ FLessEq(b, <<13743895, -37>>) -> FHuge

\* expf(-k/2) for k = 1 .. 18, correctly rounded to binary32.
ExpNegHalves ==
    << <<10175896, -24>>, <<12343986, -25>>, <<14974012, -26>>,
       <<9082197, -26>>, <<11017262, -27>>, <<13364614, -28>>,
       <<16212097, -29>>, <<9833134, -29>>, <<11928194, -30>>,
       <<14469631, -31>>, <<8776275, -31>>, <<10646160, -32>>,
       <<12914444, -33>>, <<15666013, -34>>, <<9501917, -34>>,
       <<11526408, -35>>, <<13982240, -36>>, <<8480657, -36>> >>

\* expf(-t) for t >= 0: 1 for t below 2^-25, 0 for t of 128 or more (the
\* result underflows from t = 104 on), the table for the half-integers up
\* to 9.  Other arguments are outside the model.
ExpNeg(t) ==
    CASE IsZero(t) -> FOne
      [] ~IsZero(t) /\ FLess(t, <<Pow2(23), -48>>) -> FOne
      [] FLessEq(<<Pow2(23), -16>>, t) -> FZero
      [] FLessEq(<<Pow2(23), -24>>, t) /\ FLessEq(t, FromInt(9))
         /\ FromInt(Trunc(FMul(FromInt(2), t))) = FMul(FromInt(2), t) ->
            ExpNegHalves[Trunc(FMul(FromInt(2), t))]

\* float w = exp(-d1-d2).
Weight(d1, d2) == ExpNeg(FAdd(d1, d2))

\* The loop body over the window coordinates from index i on; acc is
\* [final, weights].
RECURSIVE Accumulate(_, _, _, _, _, _, _, _)
Accumulate(img, x, y, s, b, I1, seq, acc) ==
    IF Len(seq) = 0 THEN acc
    ELSE LET xs == Head(seq)[1]
             ys == Head(seq)[2]
             I2 == getColor01(img, xs, ys)
             w  == Weight(SpatialTerm(xs, ys, x, y, s), IntensityTerm(I1, I2, b))
         IN  Accumulate(img, x, y, s, b, I1, Tail(seq),
                 [final   |-> [k \in 1 .. 3 |->
                                  FAdd(acc.final[k], FMul(w, I2[k]))],
                  weights |-> FAdd(acc.weights, w)])

\* bilateralFilterPixel: what it reads, the sums, the quotients and the
\* three output bytes.
bilateralFilterPixel(img, x, y, s, b, conv) ==
    LET support == Support(s, conv)
        win == ClipWindow(x, y, support, img.width, img.height)
        seq == WindowSeq(win)
        I1  == getColor01(img, x, y)
        acc == Accumulate(img, x, y, s, b, I1, seq,
                          [final |-> <<FZero, FZero, FZero>>, weights |-> FZero])
        quot == [k \in 1 .. 3 |->
                    FDiv(FMul(FromInt(255), acc.final[k]), acc.weights)]
    IN  [x |-> x, y |-> y, support |-> support,
         window |-> {seq[i] : i \in 1 .. Len(seq)},
         weights |-> acc.weights, quot |-> quot,
         output |-> [k \in 1 .. 3 |-> CastByte(quot[k])]]

\* One whole pass of filterImage's pixel loops over img: the canvas of the
\* output pixels.
FilterPass(img, s, b, conv) ==
    [img EXCEPT !.data =
        [c \in DOMAIN img.data |->
            bilateralFilterPixel(img, c[1], c[2], s, b, conv).output]]

RECURSIVE FilterPasses(_, _, _, _, _)
FilterPasses(img, s, b, conv, n) ==
    IF n <= 0 THEN img
    ELSE FilterPasses(FilterPass(img, s, b, conv), s, b, conv, n - 1)

(***************************************************************************)
(* filterImage's loop conditions and stores.                               *)
(***************************************************************************)
\* The guard of the repetition loop.
MoreReps_Inclusive(rep, reps) == rep <= reps

MoreReps(rep, reps) == rep < reps

\* The guard of the intermediate write and the copy-back.
NotFinalRep_EveryRep(rep, reps) == rep < reps

NotFinalRep(rep, reps) == rep < reps - 1

\* imageout.setPixel(x, y, pixel...): the canvases <<imagein, imageout>>
\* after the store.
StoreOutput_InPlace(cin, cout, x, y, pixel) ==
    <<[cin EXCEPT !.data[<<x, y>>] = pixel],
      [cout EXCEPT !.data[<<x, y>>] = pixel]>>

StoreOutput(cin, cout, x, y, pixel) ==
    <<cin, [cout EXCEPT !.data[<<x, y>>] = pixel]>>

\* The copy-back of one pixel: imagein after imagein.data[y][x][k] =
\* imageout.data[y][x][k] for k = 0, 1, 2.
CopyBack_Self(cin, cout, x, y) ==
    [cin EXCEPT !.data[<<x, y>>] = cin.data[<<x, y>>]]

CopyBack(cin, cout, x, y) ==
    [cin EXCEPT !.data[<<x, y>>] = cout.data[<<x, y>>]]

(***************************************************************************)
(* The inputs of the model.                                                *)
(***************************************************************************)
Uniform(img) == \A c, d \in DOMAIN img.data : img.data[c] = img.data[d]

SigmaTokens == {"0", "0.5", "1", "1e10"}

RepsArgs == {<<>>} \cup {<<"--reps", ToString(n)>> : n \in -1 .. MaxReps}

BaseLine(s, b) == <<"--in", "in.png", "--out", "out.png", "--s", s, "--b", b>>

\* The command lines (after argv[0]) run on the input file img.  The
\* brightness sigma is 0 on every image, 0.0001 on grey images and 1 on
\* uniform images for at most one repetition: see IntensityTerm.  The
\* byte images are run for one repetition with b = 0.
CommandLines(img) ==
    IF img \in ByteImages \ PaletteImages
    THEN {BaseLine(s, "0") : s \in SigmaTokens}
    ELSE {BaseLine(s, "0") \o r : s \in SigmaTokens, r \in RepsArgs}
         \cup (IF GrayImage(img)
               THEN {BaseLine(s, "0.0001") \o r :
                        s \in SigmaTokens, r \in RepsArgs}
               ELSE {})
         \cup (IF Uniform(img)
               THEN {BaseLine(s, "1") \o r :
                        s \in SigmaTokens, r \in {<<>>, <<"--reps", "1">>}}
               ELSE {})
         \cup {BaseLine("0", "0") \o <<"stray", "--nthreads", "2">>,
               <<"--kernelWidth", "3">> \o BaseLine("1", "0"),
               BaseLine("1", "0") \o <<"--kernelWidth", "3">>,
               <<"--help">>,
               BaseLine("1", "0") \o <<"--help">>}

NoCanvas == [width |-> 0, height |-> 0, data |-> <<>>]

\* No bilateralFilterPixel call has been made.
NoCall ==
    [x |-> -1, y |-> -1, support |-> 0, window |-> {}, weights |-> FZero,
     quot |-> <<FZero, FZero, FZero>>, output |-> <<0, 0, 0>>]

(***************************************************************************)
(* State.                                                                  *)
(*   pc          where main is                                             *)
(*   argv        the arguments parseArgs has not consumed yet              *)
(*   file        the image stored at the input path                        *)
(*   params      the Parameters                                            *)
(*   conv        how the build converts an out-of-range float to int, once *)
(*               a conversion has shown it                                 *)
(*   imagein, imageout   the two canvases                                  *)
(*   rep, x, y   the loop variables of filterImage                         *)
(*   files       the files written, in order: [name, image]                *)
(*   exitStatus  the exit status, -1 while the process runs                *)
(*   stderr      what was printed to stderr                                *)
(* and, to state the properties, a record of what happened:                *)
(*   passIn      imagein at the start of each pass                         *)
(*   passOut     imageout at the end of each pass                          *)
(*   outWritten  the output pixels stored in the current pass              *)
(*   inWritten   the input pixels overwritten after the current pass       *)
(*   last        the last bilateralFilterPixel call                        *)
(***************************************************************************)
VARIABLES pc, argv, file, params, conv, imagein, imageout, rep, x, y, files,
          exitStatus, stderr, passIn, passOut, outWritten, inWritten, last

vars == <<pc, argv, file, params, conv, imagein, imageout, rep, x, y, files,
          exitStatus, stderr, passIn, passOut, outWritten, inWritten, last>>

Init ==
    /\ pc = "parseArgs"
    /\ file \in Images
    /\ argv \in CommandLines(file)
    /\ params = DefaultParameters
    /\ conv = "unobserved"
    /\ imagein = NoCanvas
    /\ imageout = NoCanvas
    /\ rep = 0
    /\ x = 0
    /\ y = 0
    /\ files = <<>>
    /\ exitStatus = -1
    /\ stderr = <<>>
    /\ passIn = <<>>
    /\ passOut = <<>>
    /\ outWritten = {}
    /\ inWritten = {}
    /\ last = NoCall

\* Parameters params = parseArgs(argc, argv);
ParseArgs ==
    /\ pc = "parseArgs"
    /\ LET r == parseArgs(argv, DefaultParameters)
       IN  /\ pc' = IF r.exited THEN "exited" ELSE "load"
           /\ exitStatus' = IF r.exited THEN r.status ELSE exitStatus
           /\ stderr' = r.stderr
           /\ params' = r.params
    /\ argv' = <<>>
    /\ UNCHANGED <<file, conv, imagein, imageout, rep, x, y, files, passIn,
                   passOut, outWritten, inWritten, last>>

\* SimpleCanvas imagein(params.inpath); SimpleCanvas imageout(params.inpath);
\* both canvases decode the same file.  filterImage is entered with rep = 0.
Load ==
    /\ pc = "load"
    /\ imagein' = file
    /\ imageout' = file
    /\ rep' = 0
    /\ pc' = "rep"
    /\ UNCHANGED <<argv, file, params, conv, x, y, files, exitStatus, stderr,
                   passIn, passOut, outWritten, inWritten, last>>

\* for (int rep = 0; rep < params.reps; rep++): the loop test.  filterImage
\* returns when it fails.
RepLoop ==
    /\ pc = "rep"
    /\ IF MoreReps(rep, params.reps)
       THEN /\ pc' = "pixel"
            /\ x' = 0
            /\ y' = 0
            /\ passIn' = Append(passIn, imagein)
            /\ outWritten' = {}
            /\ inWritten' = {}
       ELSE /\ pc' = "write"
            /\ UNCHANGED <<x, y, passIn, outWritten, inWritten>>
    /\ UNCHANGED <<argv, file, params, conv, imagein, imageout, rep, files,
                   exitStatus, stderr, passOut, last>>

\* The next position of a y-outer, x-inner loop pair, or <<-1, -1>> after
\* the last pixel.
NextPixel(px, py, width, height) ==
    IF px + 1 < width THEN <<px + 1, py>>
    ELSE IF py + 1 < height THEN <<0, py + 1>>
    ELSE <<-1, -1>>

\* One iteration of the pixel loops: bilateralFilterPixel and setPixel.
FilterPixel ==
    /\ pc = "pixel"
    /\ \E c \in (IF conv = "unobserved"
                    /\ ~InIntRange(FMul(params.s, FromInt(3)))
                 THEN Conversions ELSE {conv}) :
          LET r  == bilateralFilterPixel(imagein, x, y, params.s, params.b, c)
              st == StoreOutput(imagein, imageout, x, y, r.output)
          IN  /\ last' = r
              /\ conv' = c
              /\ imagein' = st[1]
              /\ imageout' = st[2]
    /\ outWritten' = outWritten \cup {<<x, y>>}
    /\ LET n == NextPixel(x, y, imagein.width, imagein.height)
       IN  IF n[1] >= 0
           THEN x' = n[1] /\ y' = n[2] /\ pc' = "pixel"
           ELSE x' = 0 /\ y' = 0 /\ pc' = "endpass"
    /\ UNCHANGED <<argv, file, params, rep, files, exitStatus, stderr, passIn,
                   passOut, inWritten>>

\* if (rep < params.reps-1): write "rep<rep>.png" and go on to the
\* copy-back; otherwise rep++.
EndPass ==
    /\ pc = "endpass"
    /\ passOut' = Append(passOut, imageout)
    /\ IF NotFinalRep(rep, params.reps)
       THEN /\ files' = Append(files, [name |-> <<"rep", rep, ".png">>,
                                       image |-> imageout])
            /\ pc' = "copy"
            /\ rep' = rep
       ELSE /\ files' = files
            /\ pc' = "rep"
            /\ rep' = rep + 1
    /\ UNCHANGED <<argv, file, params, conv, imagein, imageout, x, y,
                   exitStatus, stderr, passIn, outWritten, inWritten, last>>

\* One pixel of the copy-back loops; rep++ after the last one.
CopyPixel ==
    /\ pc = "copy"
    /\ imagein' = CopyBack(imagein, imageout, x, y)
    /\ inWritten' = inWritten \cup {<<x, y>>}
    /\ LET n == NextPixel(x, y, imagein.width, imagein.height)
       IN  IF n[1] >= 0
           THEN x' = n[1] /\ y' = n[2] /\ pc' = "copy" /\ rep' = rep
           ELSE x' = 0 /\ y' = 0 /\ pc' = "rep" /\ rep' = rep + 1
    /\ UNCHANGED <<argv, file, params, conv, imageout, files, exitStatus,
                   stderr, passIn, passOut, outWritten, last>>

\* imageout.write(params.outpath); return 0;
WriteOut ==
    /\ pc = "write"
    /\ files' = Append(files, [name |-> <<params.outpath>>, image |-> imageout])
    /\ exitStatus' = 0
    /\ pc' = "done"
    /\ UNCHANGED <<argv, file, params, conv, imagein, imageout, rep, x, y,
                   stderr, passIn, passOut, outWritten, inWritten, last>>

Next ==
    \/ ParseArgs
    \/ Load
    \/ RepLoop
    \/ FilterPixel
    \/ EndPass
    \/ CopyPixel
    \/ WriteOut

Spec == Init /\ [][Next]_vars
(***************************************************************************)
(* Properties.                                                             *)
(***************************************************************************)
\* The mathematical window half-width floor(3*s); IntMax stands for every
\* half-width of 2^31 - 1 or more (no image is that wide).
FloorThreeS(s) ==
    LET t == FMul(s, FromInt(3))
    IN  IF InIntRange(t) THEN Trunc(t) ELSE IntMax

\* The square of half-width hw centred on (cx, cy), intersected with the
\* image.
ClippedSquare(cx, cy, hw, width, height) ==
    {c \in Coords(width, height) :
        /\ c[1] - cx <= hw /\ cx - c[1] <= hw
        /\ c[2] - cy <= hw /\ cy - c[2] <= hw}

Called == last # NoCall

\* C1: repetition chaining.  The input of pass k+1 is, pixel for pixel, the
\* output of pass k (the input of pass 1 is the file); every intermediate
\* file "rep<k>.png" holds the output of pass k; and the final output is the
\* output of the last pass, which is the single pass applied reps times to
\* the file.
C1_RepetitionChaining ==
    /\ \A k \in 1 .. Len(passIn) :
          passIn[k] = IF k = 1 THEN file ELSE passOut[k - 1]
    /\ \A k \in 1 .. Len(files) :
          files[k].name[1] = "rep" =>
              /\ files[k].name = <<"rep", k - 1, ".png">>
              /\ files[k].image = passOut[k]
    /\ (pc = "done" /\ params.reps >= 1) =>
          /\ Len(passIn) = params.reps
          /\ Len(passOut) = params.reps
          /\ imageout = passOut[params.reps]
          /\ imageout =
                FilterPasses(file, params.s, params.b, conv, params.reps)

\* A run of two or more passes in which the first pass changed the image
\* and the second changed it again.
C1_Witness ==
    /\ pc = "done"
    /\ params.reps >= 2
    /\ passOut[1] # file
    /\ passOut[2] # passOut[1]
    /\ passIn[2] = passOut[1]

\* C2: boundary clipping, as claimed for every s >= 0.  Every pixel that
\* bilateralFilterPixel reads is inside the image, and the pixels its loops
\* read are exactly the square of half-width floor(3*s) around the target,
\* intersected with the image.
C2_BoundaryClipping ==
    Called =>
        /\ last.window \subseteq Coords(imagein.width, imagein.height)
        /\ last.window =
              ClippedSquare(last.x, last.y, FloorThreeS(params.s),
                            imagein.width, imagein.height)

\* C2 restricted to the sigmas whose 3*s an int holds: there the clipping is
\* as claimed.
C2_WithinIntRange ==
    (Called /\ InIntRange(FMul(params.s, FromInt(3)))) =>
        /\ last.window \subseteq Coords(imagein.width, imagein.height)
        /\ last.window =
              ClippedSquare(last.x, last.y, FloorThreeS(params.s),
                            imagein.width, imagein.height)

\* C3: value range, as claimed.  Each quotient 255*final[k]/weights is a
\* number from 0 to 255 before it is cast to a byte.
C3_ValueRange ==
    Called =>
        \A k \in 1 .. 3 :
            /\ ~IsNaN(last.quot[k])
            /\ FLessEq(last.quot[k], FromInt(255))

\* What does hold of the quotient while 3*s fits an int: it is a number
\* below 256, so the cast is defined and yields a byte.
C3_WithinIntRange ==
    (Called /\ InIntRange(FMul(params.s, FromInt(3)))) =>
        \A k \in 1 .. 3 :
            /\ ~IsNaN(last.quot[k])
            /\ FLess(last.quot[k], FromInt(256))

\* C4: a uniform input is a fixed point, as claimed, and here only for the
\* sigmas whose 3*s an int holds (so that the overflow of C2 and C8 plays no
\* part).  When every pixel of the input file has the same colour and
\* reps >= 1, the output image is the input file.
C4_UniformFixedPoint ==
    (/\ pc = "done"
     /\ params.reps >= 1
     /\ Uniform(file)
     /\ InIntRange(FMul(params.s, FromInt(3)))) => imageout = file

\* The part of C4 that does hold for those sigmas: a 1x1 image is returned
\* unchanged, and so is any image when s = 0.
C4_SinglePixelWindow ==
    (/\ pc = "done"
     /\ params.reps >= 1
     /\ InIntRange(FMul(params.s, FromInt(3)))
     /\ (file.width * file.height = 1 \/ IsZero(params.s))) => imageout = file

\* C5 as claimed: with s = 0 and b = 0 the pixel filter is not the identity,
\* there is an image and a target pixel whose output differs from the input
\* pixel.  The images are the input images of the model, which hold every
\* byte value.
C5_NotIdentity ==
    \E img \in Images :
        \E c \in DOMAIN img.data :
            bilateralFilterPixel(img, c[1], c[2], FZero, FZero,
                                 "indefinite").output # img.data[c]

\* C5 amended: with s = 0 and b = 0 the window is the target pixel alone
\* (support is floor(3*0) = 0), its weight is exactly 1, the weight sum is
\* exactly 1, and the output pixel is the input pixel, whatever its bytes:
\* the filter is the identity.
C5_ZeroSigmasIdentity ==
    (Called /\ IsZero(params.s) /\ IsZero(params.b)) =>
        /\ last.window = {<<last.x, last.y>>}
        /\ last.weights = FOne
        /\ last.output = passIn[Len(passIn)].data[<<last.x, last.y>>]

\* A pixel was filtered with s = 0 and b = 0 whose horizontal or vertical
\* neighbour has another colour: an average over any neighbourhood would
\* have changed it.
C5_Witness ==
    /\ Called
    /\ IsZero(params.s)
    /\ IsZero(params.b)
    /\ \E c \in DOMAIN imagein.data :
          /\ (c[1] - last.x) * (c[1] - last.x)
                + (c[2] - last.y) * (c[2] - last.y) = 1
          /\ imagein.data[c] # imagein.data[<<last.x, last.y>>]

\* C6: intermediate files.  A step writes an intermediate file only at the
\* end of a non-final pass, names it by the repetition index, after every
\* pixel of the pass's output has been stored and before any input pixel is
\* overwritten; the end of the final pass writes nothing; the copy-back runs
\* with the file of its repetition already written; and a finished run with
\* reps >= 1 has written rep0.png .. rep<reps-2>.png in this order and then
\* the output file.
C6_IntermediateArtifacts ==
    /\ [][/\ (Len(files') > Len(files) /\ pc # "write") =>
                /\ pc = "endpass"
                /\ rep < params.reps - 1
                /\ Len(files) = rep
                /\ files' = Append(files, [name |-> <<"rep", rep, ".png">>,
                                           image |-> imageout])
                /\ outWritten = Coords(imagein.width, imagein.height)
                /\ inWritten = {}
                /\ imagein = passIn[rep + 1]
          /\ (pc = "endpass" /\ rep >= params.reps - 1) => files' = files
         ]_vars
    /\ [](/\ pc = "copy" =>
                /\ Len(files) = rep + 1
                /\ files[rep + 1].name = <<"rep", rep, ".png">>
          /\ (pc = "done" /\ params.reps >= 1) =>
                /\ Len(files) = params.reps
                /\ \A k \in 1 .. params.reps - 1 :
                      files[k].name = <<"rep", k - 1, ".png">>
                /\ files[params.reps].name = <<params.outpath>>)

\* A finished run of three passes: rep0.png, rep1.png and the output file.
C6_Witness ==
    /\ pc = "done"
    /\ params.reps = 3
    /\ Len(files) = 3
    /\ files[1].name = <<"rep", 0, ".png">>
    /\ files[2].name = <<"rep", 1, ".png">>

\* C7: as claimed.  After "Invalid option" the process has exited with a
\* non-zero status, and no image was loaded, filtered or written.
C7_InvalidOptionExit ==
    (pc = "exited" /\ stderr # <<>>) =>
        /\ exitStatus # 0
        /\ imagein = NoCanvas
        /\ imageout = NoCanvas
        /\ ~Called
        /\ files = <<>>

\* C8: as claimed for every s >= 0, b >= 0.  The window contains the target
\* pixel and the weight sum is at least 1 when the division is made.
C8_WeightSumAtLeastOne ==
    Called =>
        /\ <<last.x, last.y>> \in last.window
        /\ ~IsNaN(last.weights)
        /\ FLessEq(FOne, last.weights)

\* C8 restricted to the sigmas whose 3*s an int holds.
C8_WithinIntRange ==
    (Called /\ InIntRange(FMul(params.s, FromInt(3)))) =>
        /\ <<last.x, last.y>> \in last.window
        /\ ~IsNaN(last.weights)
        /\ FLessEq(FOne, last.weights)

\* C9: the input is frozen during a pass.  No step of the pixel loops
\* changes imagein; imagein changes only in the copy-back of a non-final
\* repetition; the canvases keep their size; during the pixel loops imagein
\* is the image the pass started from, and at the end of the pass every
\* output pixel is the pixel filter's result on that one image; with
\* reps = 1 imagein is the file on return.
C9_InputFrozen ==
    /\ [][/\ pc = "pixel" => imagein' = imagein
          /\ (imagein' # imagein /\ pc # "load") =>
                (pc = "copy" /\ rep < params.reps - 1)
          /\ pc \notin {"parseArgs", "load"} =>
                /\ imagein'.width = imagein.width
                /\ imagein'.height = imagein.height
                /\ DOMAIN imagein'.data = DOMAIN imagein.data
                /\ imageout'.width = imageout.width
                /\ imageout'.height = imageout.height
                /\ DOMAIN imageout'.data = DOMAIN imageout.data
         ]_vars
    /\ [](/\ pc \in {"pixel", "endpass"} => imagein = passIn[rep + 1]
          /\ pc = "endpass" =>
                imageout =
                    FilterPass(passIn[rep + 1], params.s, params.b, conv)
          /\ (pc = "done" /\ params.reps = 1) => imagein = file)

\* A single pass has run, changed the image, and left the input alone.
C9_Witness ==
    /\ pc = "done"
    /\ params.reps = 1
    /\ imageout # file
    /\ imagein = file

\* C10: reps <= 0 is a no-op.  Once the arguments are parsed with a
\* repetition count of 0 or less, the pixel filter is never called, no output
\* or input pixel is written, no intermediate file is written, both
\* canvases stay the decoded file, and the one file written is the output
\* path holding a copy of the input image.
C10_ZeroRepsNoOp ==
    (pc \notin {"parseArgs", "exited"} /\ params.reps <= 0) =>
        /\ ~Called
        /\ passIn = <<>>
        /\ outWritten = {}
        /\ inWritten = {}
        /\ pc # "load" => (imagein = file /\ imageout = file)
        /\ pc # "done" => files = <<>>
        /\ pc = "done" =>
              files = <<[name |-> <<params.outpath>>, image |-> file]>>

\* A finished run with --reps 0.
C10_Witness ==
    /\ pc = "done"
    /\ params.reps = 0
    /\ Len(files) = 1
====
